---- MODULE Spec2Model ----
(***************************************************************************)
(* Model of hoi.metrics.red_mmi.RedundancyMMI.fit (src/hoi/metrics/        *)
(* red_mmi.py): redundancy of every multiplet of candidate features as     *)
(* the minimum of the members' mutual information with a target.           *)
(*                                                                         *)
(* Abstractions.  The sample axis is folded into the content of a column:  *)
(* a column is the set of independent latent sources it carries, and the   *)
(* joint entropy of a block of columns grows with the number of distinct   *)
(* sources in it.  An array (channels, features, samples) is therefore a    *)
(* sequence over channels of sequences over features of source sets.       *)
(* Feature and multiplet indices are 0-based as in the code; positions in  *)
(* TLA+ sequences are 1-based.                                             *)
(*                                                                         *)
(* One estimator ("main") lives across calls.  After each of its calls a   *)
(* second estimator ("fresh") is constructed on the same dataset with the  *)
(* channel axis permuted and is given the same arguments, so that the two  *)
(* runs can be compared.                                                   *)
(***************************************************************************)
EXTENDS Integers, Sequences, FiniteSets, TLC

\* ------------------------------------------------------------------ bounds
\* largest number of features of a dataset, target included
MaxFeatures == 5
\* largest number of channels (n_variables) of a dataset
MaxVariables == 2

\* latent sources a column may carry, and the catalogue of channel signals
Sources == {0, 1, 2}
Signals == {0, 1}

Ids == {"main", "fresh"}
KnownMethods == {"gcmi", "binning", "knn"}
Methods == KnownMethods \cup {"bogus"}

\* obj: the estimators' attributes; frame: the local variables of the fit call
\* an estimator is running; outcome: what that call has done and returned;
\* cur, pc: the estimator that is running and its position in fit; args: the
\* arguments of the call; perm: the channel permutation of the second
\* estimator's dataset; pre: the first estimator's attributes when the call began
VARIABLES obj, frame, outcome, cur, pc, args, perm, pre

vars == <<obj, frame, outcome, cur, pc, args, perm, pre>>

\* ------------------------------------------------------------ pure helpers
Max(a, b) == IF a >= b THEN a ELSE b

RECURSIVE Factorial(_)
Factorial(n) == IF n <= 1 THEN 1 ELSE n * Factorial(n - 1)

\* math.comb: n! / (k! (n-k)!), and 0 when k > n
ccomb(n, k) == IF k > n THEN 0 ELSE Factorial(n) \div (Factorial(k) * Factorial(n - k))

RECURSIVE SumSeq(_)
SumSeq(s) == IF s = <<>> THEN 0 ELSE Head(s) + SumSeq(Tail(s))

\* range(a, b) as a sequence: a, a+1, ..., b-1
Range(a, b) == [i \in 1..Max(b - a, 0) |-> a + i - 1]

\* sum([ccomb(n_features - 1, c) for c in range(minsize, maxsize + 1)])
\* variant: the target is counted among the candidates
NMults_WithTarget(n_features, minsize, maxsize) ==
    SumSeq([i \in DOMAIN Range(minsize, maxsize + 1) |->
               ccomb(n_features, Range(minsize, maxsize + 1)[i])])

NMults(n_features, minsize, maxsize) ==
    SumSeq([i \in DOMAIN Range(minsize, maxsize + 1) |->
               ccomb(n_features - 1, Range(minsize, maxsize + 1)[i])])

\* hoi.core.combinatory.combinations(n, k): every increasing k-tuple over
\* 0..n-1, lexicographically, as one array of shape (C(n, k), k)
RECURSIVE CombsFrom(_, _, _)
CombsFrom(lo, n, k) ==
    IF k = 0 THEN << <<>> >>
    ELSE IF lo > n - k THEN <<>>
    ELSE LET with == CombsFrom(lo + 1, n, k - 1)
         IN  [i \in DOMAIN with |-> <<lo>> \o with[i]] \o CombsFrom(lo + 1, n, k)

combinations(n, k) == CombsFrom(0, n, k)

\* HOIEstimator._check_minmax(minsize, maxsize): maxsize defaults to the
\* number of candidate features; a range that is empty or exceeds the
\* candidates is an InvalidSizeError
check_minmax(n_features, minsize, maxsize) ==
    LET mx == IF maxsize = <<>> THEN n_features - 1 ELSE maxsize[1]
    IN  IF minsize > mx \/ mx > n_features - 1
        THEN [err |-> "InvalidSizeError", minsize |-> 0, maxsize |-> 0]
        ELSE [err |-> "none", minsize |-> minsize, maxsize |-> mx]

\* max(minsize, 2) in the call of _check_minmax
\* variant: min in place of max
ClampMinsize_Min(minsize) == IF minsize <= 2 THEN minsize ELSE 2

ClampMinsize(minsize) == Max(minsize, 2)

\* hoi.core.entropies.prepare_for_entropy(data, method): the prepared array
\* has the layout of the input and carries the information of each column
prepare_for_entropy(data, method) ==
    [c \in DOMAIN data |-> [f \in DOMAIN data[c] |-> data[c][f]]]

\* hoi.core.entropies.get_entropy(method): the backend, or an error for a
\* name that is not one of the three strategies
get_entropy(method) ==
    IF method \in KnownMethods
    THEN [err |-> "none", backend |-> method]
    ELSE [err |-> "UnknownBackendError", backend |-> "none"]

\* the entropy of one channel's block of columns under a backend: the
\* number of distinct sources of the block, in the backend's unit and bias
entropy_core(backend, block) ==
    LET h == Cardinality(UNION {block[j] : j \in DOMAIN block})
    IN  CASE backend = "gcmi" -> h
          [] backend = "binning" -> 2 * h
          [] OTHER -> h + 1

\* jax.vmap(get_entropy(...)): the backend applied to every channel's block
entropy(backend, arr) == [c \in DOMAIN arr |-> entropy_core(backend, arr[c])]

\* x[:, comb, :]: the columns of comb (0-based) of every channel
SelectColumns(x, comb) ==
    [c \in DOMAIN x |-> [j \in DOMAIN comb |-> x[c][comb[j] + 1]]]

\* jnp.concatenate((xc, y), axis=1)
ConcatFeatures(xc, y) == [c \in DOMAIN xc |-> xc[c] \o y[c]]

\* _mutual_information((x, y), comb, entropy): h_x + h_y - h_xy per channel
\* variant: the target entropy of the first channel is used for all
mutual_information_SharedTarget(x, y, comb, backend) ==
    LET xc == SelectColumns(x, comb)
        h_x == entropy(backend, xc)
        h_y == entropy(backend, y)
        h_xy == entropy(backend, ConcatFeatures(xc, y))
    IN  [c \in DOMAIN x |-> h_x[c] + h_y[1] - h_xy[c]]

mutual_information(x, y, comb, backend) ==
    LET xc == SelectColumns(x, comb)
        h_x == entropy(backend, xc)
        h_y == entropy(backend, y)
        h_xy == entropy(backend, ConcatFeatures(xc, y))
    IN  [c \in DOMAIN x |-> h_x[c] + h_y[c] - h_xy[c]]

\* jax.lax.scan(mutual_information, (x, y), arange(x.shape[1]).reshape(-1, 1)):
\* row f+1 of the result is the mutual information of candidate f
ScanMI(x, y, backend) ==
    [i \in 1..Len(x[1]) |-> mutual_information(x, y, <<i - 1>>, backend)]

RECURSIVE SeqMin(_)
SeqMin(s) == IF Len(s) = 1 THEN s[1]
             ELSE LET m == SeqMin(Tail(s)) IN IF s[1] <= m THEN s[1] ELSE m

RECURSIVE SeqMax(_)
SeqMax(s) == IF Len(s) = 1 THEN s[1]
             ELSE LET m == SeqMax(Tail(s)) IN IF s[1] >= m THEN s[1] ELSE m

\* i_xiy[_h_idx, :].min(1): per multiplet and channel, the minimum over the
\* members of the multiplet
\* variant: the maximum in place of the minimum
Aggregate_Max(i_xiy, h, n_var) ==
    [r \in DOMAIN h |-> [c \in 1..n_var |->
        SeqMax([j \in DOMAIN h[r] |-> i_xiy[h[r][j] + 1][c]])]]

Aggregate(i_xiy, h, n_var) ==
    [r \in DOMAIN h |-> [c \in 1..n_var |->
        SeqMin([j \in DOMAIN h[r] |-> i_xiy[h[r][j] + 1][c]])]]

\* jnp.zeros((rows, cols)), jnp.full((rows, cols), -1), jnp.zeros((rows,))
Zeros2(rows, cols) == [r \in 1..rows |-> [c \in 1..cols |-> 0]]

\* variant: the index table is filled with 0
FullIdx_Zero(rows, cols) == [r \in 1..rows |-> [c \in 1..cols |-> 0]]

FullIdx(rows, cols) == [r \in 1..rows |-> [c \in 1..cols |-> -1]]

Zeros1(rows) == [r \in 1..rows |-> 0]

\* tbl.at[offset:offset+n_combs, 0:n_feat].set(rows), for a slice that lies
\* within the table
SetBlock(tbl, offset, rows, n_feat) ==
    [r \in DOMAIN tbl |->
        IF r > offset /\ r <= offset + Len(rows)
        THEN [c \in DOMAIN tbl[r] |->
                 IF c <= n_feat THEN rows[r - offset][c] ELSE tbl[r][c]]
        ELSE tbl[r]]

\* tbl.at[offset:offset+n_combs].set(value)
SetSlice(tbl, offset, n_combs, value) ==
    [r \in DOMAIN tbl |->
        IF r > offset /\ r <= offset + n_combs THEN value ELSE tbl[r]]

\* np.ones_like(order, dtype=bool)
OnesLike(order) == [r \in DOMAIN order |-> TRUE]

\* ---------------------------------------------------------------- datasets
\* the sources carried by feature f of a channel that records signal s
Column(s, f) ==
    {b \in Sources : (((((f + 2) * (s + 3) + f * f) % 7) + 1) \div (2 ^ b)) % 2 = 1}

\* the dataset whose channel c records signal sig[c]; the target is the last
\* feature
DataArray(sig, n) == [c \in DOMAIN sig |-> [f \in 1..n |-> Column(sig[c], f - 1)]]

\* the dataset with its channel axis reordered by p
PermuteChannels(data, p) == [c \in DOMAIN data |-> data[p[c]]]

Perms(n) == {p \in [1..n -> 1..n] : \A i, j \in 1..n : p[i] = p[j] => i = j}

Identity(n) == [c \in 1..n |-> c]

\* RedundancyMMI.__init__: the dataset (target appended) and its shape; the
\* output attributes are not set yet
Construct(data) ==
    [data |-> data, n_features |-> Len(data[1]), n_variables |-> Len(data),
     self_order |-> <<>>, self_multiplets |-> <<>>, self_keep |-> <<>>]

\* a call frame before any local is bound, and a call that has done nothing
Frame0 ==
    [minsize |-> 0, maxsize |-> 0, x |-> <<>>, y |-> <<>>, backend |-> "none",
     i_xiy |-> <<>>, n_mults |-> 0, hoi |-> <<>>, h_idx |-> <<>>, order |-> <<>>,
     offset |-> 0, msize |-> 0]

Outcome0 == [result |-> <<>>, error |-> "none", trace |-> <<>>]

NoArgs == [minsize |-> 0, maxsize |-> <<>>, method |-> "none"]

\* the arguments a caller may pass: maxsize <<>> is None
MinsizeArgs == 1..(MaxFeatures - 1)
MaxsizeArgs == {<<>>} \cup {<<m>> : m \in 1..MaxFeatures}

Init ==
    \E n \in 2..MaxFeatures, nv \in 1..MaxVariables :
      \E sig \in [1..nv -> Signals] :
        /\ obj = [e \in Ids |-> Construct(DataArray(sig, n))]
        /\ frame = [e \in Ids |-> Frame0]
        /\ outcome = [e \in Ids |-> Outcome0]
        /\ cur = "main"
        /\ pc = "idle"
        /\ args = NoArgs
        /\ perm = Identity(nv)
        /\ pre = Construct(DataArray(sig, n))

\* ------------------------------------------------------------- fit, by step
Did(step) == [outcome EXCEPT ![cur].trace = Append(@, step)]

\* an exception leaves fit: nothing is returned
Raise(step, err) ==
    /\ pc' = "failed"
    /\ outcome' = [outcome EXCEPT ![cur].trace = Append(@, step), ![cur].error = err]

\* fit(minsize, maxsize, method) is called on the first estimator
Call(mi, ma, me) ==
    /\ pc = "idle"
    /\ args' = [minsize |-> mi, maxsize |-> ma, method |-> me]
    /\ cur' = "main"
    /\ pc' = "check"
    /\ pre' = obj["main"]
    /\ frame' = [frame EXCEPT !["main"] = Frame0]
    /\ outcome' = [outcome EXCEPT !["main"] = Outcome0]
    /\ UNCHANGED <<obj, perm>>

\* minsize, maxsize = self._check_minmax(max(minsize, 2), maxsize)
\* variant: a rejected call clears the keep mask
CheckMinMax_ResetFirst ==
    /\ pc = "check"
    /\ LET r == check_minmax(obj[cur].n_features, ClampMinsize(args.minsize),
                             args.maxsize)
       IN  IF r.err # "none"
           THEN /\ Raise("check", r.err)
                /\ obj' = [obj EXCEPT ![cur].self_keep = <<>>]
                /\ UNCHANGED frame
           ELSE /\ frame' = [frame EXCEPT ![cur].minsize = r.minsize,
                                          ![cur].maxsize = r.maxsize]
                /\ outcome' = Did("check")
                /\ pc' = "prepare"
                /\ UNCHANGED obj
    /\ UNCHANGED <<cur, args, perm, pre>>

CheckMinMax ==
    /\ pc = "check"
    /\ LET r == check_minmax(obj[cur].n_features, ClampMinsize(args.minsize),
                             args.maxsize)
       IN  IF r.err # "none"
           THEN /\ Raise("check", r.err)
                /\ UNCHANGED frame
           ELSE /\ frame' = [frame EXCEPT ![cur].minsize = r.minsize,
                                          ![cur].maxsize = r.maxsize]
                /\ outcome' = Did("check")
                /\ pc' = "prepare"
    /\ UNCHANGED <<obj, cur, args, perm, pre>>

\* data, kwargs = prepare_for_entropy(self._data, method, **kwargs)
\* x, y = data[:, 0:-1, :], data[:, [-1], :]
PrepareData ==
    /\ pc = "prepare"
    /\ LET data == prepare_for_entropy(obj[cur].data, args.method)
       IN  frame' = [frame EXCEPT
              ![cur].x = [c \in DOMAIN data |-> SubSeq(data[c], 1, Len(data[c]) - 1)],
              ![cur].y = [c \in DOMAIN data |-> <<data[c][Len(data[c])]>>]]
    /\ outcome' = Did("prepare")
    /\ pc' = "backend"
    /\ UNCHANGED <<obj, cur, args, perm, pre>>

\* entropy = jax.vmap(get_entropy(method=method, **kwargs))
\* mutual_information = partial(_mutual_information, entropy=entropy)
\* variant: an unknown name falls back to the default backend
PrepareEntropy_Fallback ==
    /\ pc = "backend"
    /\ LET r == get_entropy(args.method)
       IN  /\ frame' = [frame EXCEPT ![cur].backend =
                           IF r.err # "none" THEN "gcmi" ELSE r.backend]
           /\ outcome' = Did("backend")
           /\ pc' = "scan"
    /\ UNCHANGED <<obj, cur, args, perm, pre>>

PrepareEntropy ==
    /\ pc = "backend"
    /\ LET r == get_entropy(args.method)
       IN  IF r.err # "none"
           THEN /\ Raise("backend", r.err)
                /\ UNCHANGED frame
           ELSE /\ frame' = [frame EXCEPT ![cur].backend = r.backend]
                /\ outcome' = Did("backend")
                /\ pc' = "scan"
    /\ UNCHANGED <<obj, cur, args, perm, pre>>

\* _, i_xiy = jax.lax.scan(mutual_information, (x, y), ...)
Scan ==
    /\ pc = "scan"
    /\ frame' = [frame EXCEPT ![cur].i_xiy =
                    ScanMI(frame[cur].x, frame[cur].y, frame[cur].backend)]
    /\ outcome' = Did("scan")
    /\ pc' = "alloc"
    /\ UNCHANGED <<obj, cur, args, perm, pre>>

\* n_mults, hoi, h_idx, order are allocated, offset = 0, and the loop over
\* range(minsize, maxsize + 1) starts
\* variant: the order table of the previous call is reused
Allocate_Reuse ==
    /\ pc = "alloc"
    /\ LET f == frame[cur]
           n == NMults(obj[cur].n_features, f.minsize, f.maxsize)
       IN  frame' = [frame EXCEPT
              ![cur].n_mults = n,
              ![cur].hoi = Zeros2(n, obj[cur].n_variables),
              ![cur].h_idx = FullIdx(n, f.maxsize),
              ![cur].order = IF obj[cur].self_order # <<>>
                             THEN obj[cur].self_order ELSE Zeros1(n),
              ![cur].offset = 0,
              ![cur].msize = f.minsize]
    /\ outcome' = Did("alloc")
    /\ pc' = "loop"
    /\ UNCHANGED <<obj, cur, args, perm, pre>>

Allocate ==
    /\ pc = "alloc"
    /\ LET f == frame[cur]
           n == NMults(obj[cur].n_features, f.minsize, f.maxsize)
       IN  frame' = [frame EXCEPT
              ![cur].n_mults = n,
              ![cur].hoi = Zeros2(n, obj[cur].n_variables),
              ![cur].h_idx = FullIdx(n, f.maxsize),
              ![cur].order = Zeros1(n),
              ![cur].offset = 0,
              ![cur].msize = f.minsize]
    /\ outcome' = Did("alloc")
    /\ pc' = "loop"
    /\ UNCHANGED <<obj, cur, args, perm, pre>>

\* the offset after an iteration that wrote n_combs rows: offset += n_combs
\* variant: offset = n_combs
Advance_Overwrite(offset, n_combs) == n_combs

Advance(offset, n_combs) == offset + n_combs

\* one iteration of the loop, for the array _h_idx the enumerator returned:
\* n_combs, n_feat = _h_idx.shape, the three tables are filled at
\* offset:offset+n_combs, and the offset advances
FillWith(h) ==
    /\ pc = "loop"
    /\ LET f == frame[cur]
           n_combs == Len(h)
           n_feat == IF h = <<>> THEN f.msize ELSE Len(h[1])
           hoi_k == Aggregate(f.i_xiy, h, obj[cur].n_variables)
       IN  frame' = [frame EXCEPT
              ![cur].h_idx = SetBlock(f.h_idx, f.offset, h, n_feat),
              ![cur].order = SetSlice(f.order, f.offset, n_combs, f.msize),
              ![cur].hoi = SetBlock(f.hoi, f.offset, hoi_k, obj[cur].n_variables),
              ![cur].offset = Advance(f.offset, n_combs),
              ![cur].msize = IF f.msize < f.maxsize THEN f.msize + 1 ELSE f.msize]
    /\ outcome' = Did("order")
    /\ pc' = IF frame[cur].msize < frame[cur].maxsize THEN "loop" ELSE "publish"
    /\ UNCHANGED <<obj, cur, args, perm, pre>>

\* for msize in range(minsize, maxsize + 1): combinations, fill, aggregate
FillOrder ==
    /\ pc = "loop"
    /\ FillWith(combinations(obj[cur].n_features - 1, frame[cur].msize))

\* self._order, self._multiplets, self._keep are set; return np.asarray(hoi)
Publish ==
    /\ pc = "publish"
    /\ obj' = [obj EXCEPT ![cur].self_order = frame[cur].order,
                          ![cur].self_multiplets = frame[cur].h_idx,
                          ![cur].self_keep = OnesLike(frame[cur].order)]
    /\ outcome' = [outcome EXCEPT ![cur].trace = Append(@, "publish"),
                                  ![cur].result = frame[cur].hoi]
    /\ pc' = "returned"
    /\ UNCHANGED <<frame, cur, args, perm, pre>>

Ended == pc \in {"returned", "failed"}

\* a second estimator is constructed on the dataset with its channels
\* reordered, and fit is called on it with the same arguments
Replay ==
    /\ cur = "main"
    /\ Ended
    /\ \E p \in Perms(obj["main"].n_variables) :
         /\ perm' = p
         /\ obj' = [obj EXCEPT !["fresh"] =
                       Construct(PermuteChannels(obj["main"].data, p))]
    /\ frame' = [frame EXCEPT !["fresh"] = Frame0]
    /\ outcome' = [outcome EXCEPT !["fresh"] = Outcome0]
    /\ cur' = "fresh"
    /\ pc' = "check"
    /\ UNCHANGED <<args, pre>>

\* both calls are over: their frames are gone and the second estimator is
\* dropped
Finish ==
    /\ cur = "fresh"
    /\ Ended
    /\ obj' = [obj EXCEPT !["fresh"] = Construct(obj["main"].data)]
    /\ frame' = [e \in Ids |-> Frame0]
    /\ outcome' = [e \in Ids |-> Outcome0]
    /\ cur' = "main"
    /\ pc' = "idle"
    /\ args' = NoArgs
    /\ perm' = Identity(obj["main"].n_variables)
    /\ pre' = obj["main"]

Next ==
    \/ \E mi \in MinsizeArgs, ma \in MaxsizeArgs, me \in Methods : Call(mi, ma, me)
    \/ CheckMinMax
    \/ PrepareData
    \/ PrepareEntropy
    \/ Scan
    \/ Allocate
    \/ FillOrder
    \/ Publish
    \/ Replay
    \/ Finish

Spec == Init /\ [][Next]_vars

\* ------------------------------------------------- a faulty enumerator
\* the arrays an enumerator that loses the last multiplet of an order may
\* return
Truncations(h) == {SubSeq(h, 1, m) : m \in {Len(h) - 1, Len(h)}}

FillOrderFaulty ==
    /\ pc = "loop"
    /\ \E h \in Truncations(combinations(obj[cur].n_features - 1, frame[cur].msize)) :
         FillWith(h)

NextFaulty ==
    \/ \E mi \in MinsizeArgs, ma \in MaxsizeArgs, me \in Methods : Call(mi, ma, me)
    \/ CheckMinMax
    \/ PrepareData
    \/ PrepareEntropy
    \/ Scan
    \/ Allocate
    \/ FillOrderFaulty
    \/ Publish
    \/ Replay
    \/ Finish

FaultySpec == Init /\ [][NextFaulty]_vars

\* ------------------------------------------------------------- properties
\* C(n, k) by Pascal's rule
RECURSIVE Choose(_, _)
Choose(n, k) ==
    IF k = 0 THEN 1
    ELSE IF n = 0 THEN 0
    ELSE Choose(n - 1, k - 1) + Choose(n - 1, k)

RECURSIVE SumChoose(_, _, _)
SumChoose(n, lo, hi) == IF lo > hi THEN 0 ELSE Choose(n, lo) + SumChoose(n, lo + 1, hi)

SetMin(S) == CHOOSE m \in S : \A v \in S : m <= v

\* the sizes the arguments of the call ask for, and the candidates
ArgLo == IF args.minsize < 2 THEN 2 ELSE args.minsize
ArgHi == IF args.maxsize = <<>> THEN obj["main"].n_features - 1 ELSE args.maxsize[1]
NCand == obj["main"].n_features - 1

InCall == pc # "idle"
Returned(e) == outcome[e].result # <<>>
Failed(e) == outcome[e].error # "none"
Exposed(o) == <<o.self_order, o.self_multiplets, o.self_keep>>
CountOrder(order, k) == Cardinality({r \in DOMAIN order : order[r] = k})

\* C1: the tables a call returns have sum over k in [minsize, maxsize] of
\* C(n_features-1, k) rows, and for every k the Order Table holds exactly
\* C(n_features-1, k) rows of value k when k is in the range and none otherwise
\* (no row keeps the initial 0)
C1_RowCounts ==
    \A e \in {cur} : pc = "returned" =>
        /\ Len(outcome[e].result) = SumChoose(NCand, ArgLo, ArgHi)
        /\ Len(obj[e].self_order) = SumChoose(NCand, ArgLo, ArgHi)
        /\ Len(obj[e].self_multiplets) = SumChoose(NCand, ArgLo, ArgHi)
        /\ frame[e].n_mults = SumChoose(NCand, ArgLo, ArgHi)
        /\ \A k \in 0..(MaxFeatures + 1) :
              CountOrder(obj[e].self_order, k) =
                 IF k >= ArgLo /\ k <= ArgHi THEN Choose(NCand, k) ELSE 0

C1_Witness ==
    /\ pc = "returned"
    /\ cur = "main"
    /\ ArgLo < ArgHi
    /\ NCand >= 4
    /\ CountOrder(obj["main"].self_order, 2) = 6
    /\ CountOrder(obj["main"].self_order, 3) = 4

\* the members of row r of a Multiplet Index Table: its entries other than
\* the sentinel
Members(row) == {row[j] : j \in {i \in DOMAIN row : row[i] # -1}}

\* C2: in the tables a call returns, hoi[i, c] is the minimum over the
\* members of row i of the Multiplet Index Table of the Single-feature MI
\* table entry MI[member, c]
C2_HoiIsMinOverMembers ==
    \A e \in {cur} : pc = "returned" =>
        \A i \in DOMAIN outcome[e].result : \A c \in 1..obj[e].n_variables :
            /\ Members(obj[e].self_multiplets[i]) # {}
            /\ outcome[e].result[i][c] =
                 SetMin({frame[e].i_xiy[m + 1][c] :
                            m \in Members(obj[e].self_multiplets[i])})

C2_Witness ==
    /\ pc = "returned"
    /\ \E i \in DOMAIN outcome[cur].result : \E c \in 1..obj[cur].n_variables :
         \E m \in Members(obj[cur].self_multiplets[i]) :
            frame[cur].i_xiy[m + 1][c] > outcome[cur].result[i][c]

\* C3: every row of the Multiplet Index Table has width maxsize and is a
\* prefix of pairwise distinct feature indices of 0..n-2 followed only by
\* the sentinel -1, the prefix as long as the row's Order Table value
C3_RowsLeftJustified ==
    \A e \in {cur} : pc = "returned" =>
        \A r \in DOMAIN obj[e].self_multiplets :
            LET row == obj[e].self_multiplets[r]
                k == obj[e].self_order[r]
            IN  /\ Len(row) = ArgHi
                /\ k >= 0 /\ k <= Len(row)
                /\ \A j \in 1..k : row[j] \in 0..(NCand - 1)
                /\ \A j1, j2 \in 1..k : row[j1] = row[j2] => j1 = j2
                /\ \A j \in (k + 1)..Len(row) : row[j] = -1

C3_Witness ==
    /\ pc = "returned"
    /\ \E r \in DOMAIN obj[cur].self_multiplets :
         /\ obj[cur].self_order[r] = 2
         /\ Len(obj[cur].self_multiplets[r]) = 4
         /\ obj[cur].self_multiplets[r][3] = -1
         /\ obj[cur].self_multiplets[r][1] # -1

\* the sizes the call contract names as invalid, on the arguments as passed
SizesInvalid == args.minsize > ArgHi \/ ArgHi > NCand

\* the sizes the size check rejects, minsize clamped to 2
SizesRejected == ArgLo > ArgHi \/ ArgHi > NCand

\* C4: a call with minsize > maxsize or maxsize > n-1 fails with
\* InvalidSizeError at the size check, before data preparation, backend
\* construction, the MI scan or any allocation; so does minsize=2 on a
\* dataset with one candidate
C4_InvalidSizeFailsFirst ==
    (InCall /\ SizesInvalid) =>
        /\ pc \in {"check", "failed"}
        /\ \A e \in Ids :
             /\ outcome[e].trace \in {<<>>, <<"check">>}
             /\ outcome[e].trace = <<"check">> => outcome[e].error = "InvalidSizeError"
             /\ outcome[e].result = <<>>
             /\ frame[e] = Frame0

C4_Witness ==
    /\ pc = "failed"
    /\ obj[cur].n_features = 2
    /\ args.minsize = 2
    /\ args.maxsize = <<>>
    /\ outcome[cur].error = "InvalidSizeError"

\* C5: a call with an unrecognized method name and valid sizes fails with
\* UnknownBackendError, and the MI scan never starts: no Single-feature MI
\* table exists at any point of the call
C5_UnknownBackendBeforeScan ==
    (InCall /\ args.method \notin KnownMethods) =>
        \A e \in Ids :
            /\ frame[e].i_xiy = <<>>
            /\ \A j \in DOMAIN outcome[e].trace :
                 outcome[e].trace[j] \in {"check", "prepare", "backend"}
            /\ outcome[e].result = <<>>
            /\ (~SizesRejected /\ (e # cur \/ Ended)) =>
                 (outcome[e].trace = <<>> \/ outcome[e].error = "UnknownBackendError")

C5_Witness ==
    /\ pc = "failed"
    /\ args.method = "bogus"
    /\ outcome[cur].error = "UnknownBackendError"
    /\ outcome[cur].trace = <<"check", "prepare", "backend">>

\* C6: a call that fails returns no table, and at every step before the
\* tables are published the three exposed attributes are what they were
\* when the call began; once published they are the complete tables of
\* this call, one row per multiplet
C6_NoPartialResults ==
    \A e \in Ids :
        LET before == IF e = "main" THEN pre ELSE Construct(obj[e].data)
        IN  /\ Failed(e) => outcome[e].result = <<>>
            /\ ~Returned(e) => Exposed(obj[e]) = Exposed(before)
            /\ Returned(e) =>
                 /\ ~Failed(e)
                 /\ obj[e].self_order = frame[e].order
                 /\ obj[e].self_multiplets = frame[e].h_idx
                 /\ outcome[e].result = frame[e].hoi
                 /\ Len(obj[e].self_order) = frame[e].n_mults
                 /\ Len(obj[e].self_multiplets) = frame[e].n_mults
                 /\ Len(obj[e].self_keep) = frame[e].n_mults
                 /\ Len(outcome[e].result) = frame[e].n_mults
                 /\ \A r \in DOMAIN obj[e].self_order : obj[e].self_order[r] # 0

C6_Witness ==
    /\ pc = "failed"
    /\ cur = "main"
    /\ pre.self_order # <<>>
    /\ Exposed(obj["main"]) = Exposed(pre)

\* C7: a call whose offset after the last order differs from
\* total_multiplets fails with AssemblyInvariantError and returns no tables
C7_OffsetMismatchFails ==
    \A e \in Ids :
        ((Returned(e) \/ Failed(e)) /\ frame[e].offset # frame[e].n_mults) =>
            /\ outcome[e].error = "AssemblyInvariantError"
            /\ outcome[e].result = <<>>

\* C8: whatever calls came before, a call on the reused estimator ends as
\* the same call on a newly constructed estimator on the same dataset:
\* same error or same HOI table, Order Table, Multiplet Index Table and Keep
\* Mask, the mask all true with one entry per row
C8_CallsAreFresh ==
    (cur = "fresh" /\ Ended /\ perm = Identity(obj["main"].n_variables)) =>
        /\ outcome["main"].error = outcome["fresh"].error
        /\ outcome["main"].result = outcome["fresh"].result
        /\ Returned("main") =>
             /\ Exposed(obj["main"]) = Exposed(obj["fresh"])
             /\ Len(obj["main"].self_keep) = Len(outcome["main"].result)
             /\ \A r \in DOMAIN obj["main"].self_keep : obj["main"].self_keep[r]

C8_Witness ==
    /\ cur = "fresh"
    /\ pc = "returned"
    /\ perm = Identity(obj["main"].n_variables)
    /\ pre.self_order # <<>>
    /\ Len(pre.self_order) # Len(obj["main"].self_order)

\* C9: on the dataset with channels reordered by p, the HOI table is the
\* original one with its columns reordered by p, and the Multiplet Index
\* Table, Order Table and Keep Mask are the same
C9_ChannelsPermute ==
    (cur = "fresh" /\ pc = "returned") =>
        /\ Returned("main")
        /\ Len(outcome["fresh"].result) = Len(outcome["main"].result)
        /\ \A i \in DOMAIN outcome["fresh"].result :
             \A c \in 1..obj["main"].n_variables :
                outcome["fresh"].result[i][c] = outcome["main"].result[i][perm[c]]
        /\ Exposed(obj["fresh"]) = Exposed(obj["main"])

C9_Witness ==
    /\ cur = "fresh"
    /\ pc = "returned"
    /\ perm # Identity(obj["main"].n_variables)
    /\ \E i \in DOMAIN outcome["main"].result :
         outcome["main"].result[i][1] # outcome["main"].result[i][2]

\* the last order the loop has processed
OrdersDone(e) == IF pc = "loop" THEN frame[e].msize - 1 ELSE ArgHi

\* C10: when order k is processed the offset is the number of rows of the
\* smaller orders, each of which fills C(n-1, j) consecutive rows below the
\* offset in ascending order of j, the rows of order k fit between the
\* offset and the end of the tables, rows past the offset are still
\* untouched, after the last order the offset is total_multiplets, and the
\* Order Table never decreases; n_features=4, minsize=2, maxsize=3 gives
\* [2, 2, 2, 3]
C10_OffsetSlices ==
    \A e \in {cur} : frame[e].order # <<>> =>
        LET f == frame[e]
            done == OrdersDone(e)
        IN  /\ done \in (ArgLo - 1)..ArgHi
            /\ f.offset = SumChoose(NCand, ArgLo, done)
            /\ Len(f.order) = SumChoose(NCand, ArgLo, ArgHi)
            /\ Len(f.hoi) = Len(f.order) /\ Len(f.h_idx) = Len(f.order)
            /\ pc = "loop" =>
                 /\ f.msize \in ArgLo..ArgHi
                 /\ f.offset + Choose(NCand, f.msize) <= Len(f.order)
            /\ \A k \in ArgLo..done : CountOrder(f.order, k) = Choose(NCand, k)
            /\ \A r \in DOMAIN f.order :
                 IF r <= f.offset
                 THEN /\ f.order[r] \in ArgLo..done
                      /\ r < f.offset => f.order[r] <= f.order[r + 1]
                      /\ f.h_idx[r][1] # -1
                 ELSE /\ f.order[r] = 0
                      /\ \A j \in DOMAIN f.h_idx[r] : f.h_idx[r][j] = -1
            /\ pc # "loop" => f.offset = f.n_mults
            /\ (pc = "returned" /\ NCand = 3 /\ ArgLo = 2 /\ ArgHi = 3) =>
                 obj[e].self_order = <<2, 2, 2, 3>>

C10_Witness ==
    /\ pc = "loop"
    /\ NCand = 4
    /\ ArgLo = 2
    /\ ArgHi = 4
    /\ frame[cur].msize = 4
    /\ frame[cur].offset = 10
====
